---- MODULE Spec2Model ----
(***************************************************************************)
(* Model of the `input` crate root (src/src/input/src/lib.rs): the EventId *)
(* registry, the Button / Motion / Input sum types and the five From       *)
(* conversions between them, together with the GenericEvent protocol that  *)
(* the per-kind event traits are built on.                                 *)
(*                                                                         *)
(* Values are tuples whose first component is the Rust type and, for an    *)
(* enum, whose second component is the variant: <<type, variant, payload>>.*)
(***************************************************************************)
EXTENDS Integers, Sequences, FiniteSets, TLC

VARIABLES val, calls, old, built, req, ids, made

vars == <<val, calls, old, built, req, ids, made>>

convVars == <<val, calls>>

eventVars == <<old, built, req, ids, made>>

(***************************************************************************)
(* Bounds of the model.                                                    *)
(***************************************************************************)
\* key codes, mouse button codes, joystick button and axis payloads, window sizes
MaxCode == 2

\* finite floating-point coordinates are 0..MaxCoord; NaN is added to them
MaxCoord == 2

\* host context carried by an aggregate event
MaxCtx == 1

(***************************************************************************)
(* Leaf data: keyboard keys, mouse buttons, joystick payloads, f64.        *)
(***************************************************************************)
Key(code) == <<"Key", code>>

MouseButton(code) == <<"MouseButton", code>>

JoystickButton(code) == <<"JoystickButton", code>>

JoystickAxisArgs(code) == <<"JoystickAxisArgs", code>>

KeyValues == {Key(c) : c \in 0..MaxCode}

MouseButtonValues == {MouseButton(c) : c \in 0..MaxCode}

JoystickButtonValues == {JoystickButton(c) : c \in 0..MaxCode}

JoystickAxisArgsValues == {JoystickAxisArgs(c) : c \in 0..MaxCode}

\* an f64: a finite number or NaN
F64(n) == [nan |-> FALSE, num |-> n]

NaN == [nan |-> TRUE, num |-> 0]

F64Values == {F64(n) : n \in 0..MaxCoord} \cup {NaN}

\* f64's == : NaN equals nothing, itself included
F64Eq(a, b) == ~a.nan /\ ~b.nan /\ a.num = b.num

(***************************************************************************)
(* enum Button, enum Motion, enum Input.                                   *)
(***************************************************************************)
Button_Keyboard(key) == <<"Button", "Keyboard", key>>

Button_Mouse(btn) == <<"Button", "Mouse", btn>>

Button_Joystick(btn) == <<"Button", "Joystick", btn>>

ButtonValues ==
    {Button_Keyboard(k) : k \in KeyValues}
    \cup {Button_Mouse(b) : b \in MouseButtonValues}
    \cup {Button_Joystick(b) : b \in JoystickButtonValues}

Motion_MouseCursor(x, y) == <<"Motion", "MouseCursor", <<x, y>>>>

Motion_MouseRelative(x, y) == <<"Motion", "MouseRelative", <<x, y>>>>

Motion_MouseScroll(x, y) == <<"Motion", "MouseScroll", <<x, y>>>>

Motion_JoystickAxis(args) == <<"Motion", "JoystickAxis", args>>

MotionValues ==
    {Motion_MouseCursor(x, y) : x \in F64Values, y \in F64Values}
    \cup {Motion_MouseRelative(x, y) : x \in F64Values, y \in F64Values}
    \cup {Motion_MouseScroll(x, y) : x \in F64Values, y \in F64Values}
    \cup {Motion_JoystickAxis(a) : a \in JoystickAxisArgsValues}

Input_Press(button) == <<"Input", "Press", button>>

Input_Release(button) == <<"Input", "Release", button>>

Input_Move(motion) == <<"Input", "Move", motion>>

Input_Text(text) == <<"Input", "Text", text>>

Input_Resize(w, h) == <<"Input", "Resize", <<w, h>>>>

Input_Focus(focus) == <<"Input", "Focus", focus>>

Input_Cursor(cursor) == <<"Input", "Cursor", cursor>>

TextValues == {"", "a"}

InputValues ==
    {Input_Press(b) : b \in ButtonValues}
    \cup {Input_Release(b) : b \in ButtonValues}
    \cup {Input_Move(m) : m \in MotionValues}
    \cup {Input_Text(t) : t \in TextValues}
    \cup {Input_Resize(w, h) : w \in 0..MaxCode, h \in 0..MaxCode}
    \cup {Input_Focus(f) : f \in BOOLEAN}
    \cup {Input_Cursor(c) : c \in BOOLEAN}

\* the Rust type of a value, the variant of an enum value and its payload
TypeOf(v) == v[1]

VariantOf(v) == v[2]

PayloadOf(v) == v[3]

\* #[derive(PartialEq)] on Motion: same variant and == on the fields
MotionEq(m, n) ==
    /\ VariantOf(m) = VariantOf(n)
    /\ IF VariantOf(m) = "JoystickAxis"
       THEN PayloadOf(m) = PayloadOf(n)
       ELSE /\ F64Eq(PayloadOf(m)[1], PayloadOf(n)[1])
            /\ F64Eq(PayloadOf(m)[2], PayloadOf(n)[2])

(***************************************************************************)
(* The five From conversions.                                              *)
(***************************************************************************)
\* faulty variant: a direct Key -> Input conversion in place of Key -> Button
ButtonFromKey_direct(key) == Input_Press(Button_Keyboard(key))

\* faulty variant: the key is dropped for a default one
ButtonFromKey_default(key) == Button_Keyboard(Key(0))

\* faulty variant: a conversion that has no answer for one key
ButtonFromKey_partial(key) ==
    IF key = Key(0) THEN <<"None">> ELSE Button_Keyboard(key)

ButtonFromKey(key) == Button_Keyboard(key)

\* faulty variant: the mouse button is wrapped in the keyboard variant
ButtonFromMouseButton_variant(btn) == Button_Keyboard(btn)

\* faulty variant: the mouse button's code is stored as a key code
ButtonFromMouseButton_askey(btn) == Button_Keyboard(Key(btn[2]))

ButtonFromMouseButton(btn) == Button_Mouse(btn)

ButtonFromJoystickButton(btn) == Button_Joystick(btn)

\* faulty variant: the payload is dropped for a default one
MotionFromJoystickAxisArgs_default(args) == Motion_JoystickAxis(JoystickAxisArgs(0))

MotionFromJoystickAxisArgs(args) == Motion_JoystickAxis(args)

InputFromMotion(motion) == Input_Move(motion)

(***************************************************************************)
(* struct EventId(pub &'static str) and the fourteen predefined ids.       *)
(* Equality is the derived one: the strings are compared.                  *)
(***************************************************************************)
EventId(str) == <<"EventId", str>>

FOCUS == EventId("piston/focus")

\* faulty variant: the cursor id repeats the focus string
CURSOR_dup == EventId("piston/focus")

CURSOR == EventId("piston/cursor")

RESIZE == EventId("piston/resize")

TEXT == EventId("piston/text")

MOUSE_SCROLL == EventId("piston/mouse_scroll")

MOUSE_RELATIVE == EventId("piston/mouse_relative")

MOUSE_CURSOR == EventId("piston/mouse_cursor")

JOYSTICK_AXIS == EventId("piston/joystick_axis")

RELEASE == EventId("piston/release")

\* faulty variant: the press id repeats the release string
PRESS_dup == EventId("piston/release")

PRESS == EventId("piston/press")

\* faulty variant: the idle id repeats the update string
IDLE_dup == EventId("piston/update")

IDLE == EventId("piston/idle")

AFTER_RENDER == EventId("piston/after_render")

RENDER == EventId("piston/render")

UPDATE == EventId("piston/update")

\* the event kinds, named after the per-kind traits' accessors
InputKinds ==
    {"focus", "cursor", "resize", "text", "mouse_scroll", "mouse_relative",
     "mouse_cursor", "joystick_axis", "release", "press"}

TickKinds == {"idle", "after_render", "render", "update"}

Kinds == InputKinds \cup TickKinds

\* the id each per-kind trait passes to with_args / from_args
IdOf(kind) ==
    CASE kind = "focus" -> FOCUS
      [] kind = "cursor" -> CURSOR
      [] kind = "resize" -> RESIZE
      [] kind = "text" -> TEXT
      [] kind = "mouse_scroll" -> MOUSE_SCROLL
      [] kind = "mouse_relative" -> MOUSE_RELATIVE
      [] kind = "mouse_cursor" -> MOUSE_CURSOR
      [] kind = "joystick_axis" -> JOYSTICK_AXIS
      [] kind = "release" -> RELEASE
      [] kind = "press" -> PRESS
      [] kind = "idle" -> IDLE
      [] kind = "after_render" -> AFTER_RENDER
      [] kind = "render" -> RENDER
      [] kind = "update" -> UPDATE

PredefinedIds == {IdOf(k) : k \in Kinds}

\* the payload type of each kind
ArgsOf(kind) ==
    CASE kind \in {"focus", "cursor"} -> BOOLEAN
      [] kind = "resize" -> (0..MaxCode) \X (0..MaxCode)
      [] kind = "text" -> TextValues
      [] kind \in {"mouse_scroll", "mouse_relative", "mouse_cursor"} ->
            F64Values \X F64Values
      [] kind = "joystick_axis" -> JoystickAxisArgsValues
      [] kind \in {"release", "press"} -> ButtonValues
      [] kind \in TickKinds -> {<<kind, dt>> : dt \in F64Values}

(***************************************************************************)
(* GenericEvent: a host aggregate is <<concrete type, id, payload, ctx>>.  *)
(***************************************************************************)
Some(x) == <<"Some", x>>

None == <<"None">>

\* two concrete aggregate types: one carrying Input only, one also the ticks
AggTypes == {"InputOnly", "Full"}

Supported(ty) ==
    IF ty = "Full" THEN {IdOf(k) : k \in Kinds} ELSE {IdOf(k) : k \in InputKinds}

Aggregate(ty, id, args, ctx) == <<ty, id, args, ctx>>

AggType(e) == e[1]

event_id(e) == e[2]

AggArgs(e) == e[3]

AggCtx(e) == e[4]

with_args(e, id) == IF event_id(e) = id THEN Some(AggArgs(e)) ELSE None

\* faulty variant: the new aggregate starts from a default context
from_args_fresh(id, any, o) ==
    IF id \in Supported(AggType(o))
    THEN Some(Aggregate(AggType(o), id, any, 0))
    ELSE None

from_args(id, any, o) ==
    IF id \in Supported(AggType(o))
    THEN Some(Aggregate(AggType(o), id, any, AggCtx(o)))
    ELSE None

\* the per-kind traits: <kind>_args(&self) and from_<kind>(x, &old)
kind_args(kind, e) == with_args(e, IdOf(kind))

from_kind(kind, x, o) == from_args(IdOf(kind), x, o)

AggregateValues ==
    {Aggregate("Full", IdOf(k[1]), k[2], c) :
        k \in UNION {{<<kd, x>> : x \in ArgsOf(kd)} : kd \in Kinds}, c \in 0..MaxCtx}
    \cup
    {Aggregate("InputOnly", IdOf(k[1]), k[2], c) :
        k \in UNION {{<<kd, x>> : x \in ArgsOf(kd)} : kd \in InputKinds}, c \in 0..MaxCtx}

\* strings a caller passes to the public constructor EventId(..)
CallerStrs == {"piston/press", "my/custom"}

NoCall == <<"NoCall">>

(***************************************************************************)
(* State: `val` is the value a caller holds and `calls` the conversions it *)
(* applied to it, each <<impl, argument, result>>.  `old` is the aggregate *)
(* a caller holds, `req` its last from_<kind> call <<kind, payload, &old>>,*)
(* `built` that call's result.  `ids` are the EventId values that exist in *)
(* the process, `made` the strings given to EventId's constructor.         *)
(***************************************************************************)
LeafValues ==
    KeyValues \cup MouseButtonValues \cup JoystickButtonValues
    \cup JoystickAxisArgsValues \cup MotionValues \cup ButtonValues

NoEvent == Aggregate("Full", FOCUS, FALSE, 0)

InitConv ==
    /\ val \in LeafValues
    /\ calls = <<>>
    /\ old = NoEvent
    /\ built = NoCall
    /\ req = <<>>
    /\ ids = PredefinedIds
    /\ made = {}

InitEvent ==
    /\ val = Key(0)
    /\ calls = <<>>
    /\ old \in AggregateValues
    /\ built = NoCall
    /\ req = <<>>
    /\ ids = PredefinedIds
    /\ made = {}

FromKey ==
    /\ TypeOf(val) = "Key"
    /\ val' = ButtonFromKey(val)
    /\ calls' = Append(calls, <<"Key->Button", val, val'>>)
    /\ UNCHANGED eventVars

FromMouseButton ==
    /\ TypeOf(val) = "MouseButton"
    /\ val' = ButtonFromMouseButton(val)
    /\ calls' = Append(calls, <<"MouseButton->Button", val, val'>>)
    /\ UNCHANGED eventVars

FromJoystickButton ==
    /\ TypeOf(val) = "JoystickButton"
    /\ val' = ButtonFromJoystickButton(val)
    /\ calls' = Append(calls, <<"JoystickButton->Button", val, val'>>)
    /\ UNCHANGED eventVars

FromJoystickAxisArgs ==
    /\ TypeOf(val) = "JoystickAxisArgs"
    /\ val' = MotionFromJoystickAxisArgs(val)
    /\ calls' = Append(calls, <<"JoystickAxisArgs->Motion", val, val'>>)
    /\ UNCHANGED eventVars

FromMotion ==
    /\ TypeOf(val) = "Motion"
    /\ val' = InputFromMotion(val)
    /\ calls' = Append(calls, <<"Motion->Input", val, val'>>)
    /\ UNCHANGED eventVars

\* from_<kind>(x, &old)
CallFromKind ==
    /\ built = NoCall
    /\ \E k \in Kinds : \E x \in ArgsOf(k) :
          /\ built' = from_kind(k, x, old)
          /\ req' = <<k, x, old>>
    /\ UNCHANGED <<old, ids, made>>
    /\ UNCHANGED convVars

\* the caller keeps the aggregate it built in place of the old one
Adopt ==
    /\ built # NoCall
    /\ built # None
    /\ old' = built[2]
    /\ built' = NoCall
    /\ req' = <<>>
    /\ UNCHANGED <<ids, made>>
    /\ UNCHANGED convVars

\* the caller drops the result of its last call
Drop ==
    /\ built # NoCall
    /\ built' = NoCall
    /\ req' = <<>>
    /\ UNCHANGED <<old, ids, made>>
    /\ UNCHANGED convVars

\* EventId(str), the struct's public constructor
NewEventId ==
    /\ \E s \in CallerStrs :
          /\ ids' = ids \cup {EventId(s)}
          /\ made' = made \cup {s}
    /\ UNCHANGED <<old, built, req>>
    /\ UNCHANGED convVars

NextConv ==
    \/ FromKey
    \/ FromMouseButton
    \/ FromJoystickButton
    \/ FromJoystickAxisArgs
    \/ FromMotion

NextEvent ==
    \/ CallFromKind
    \/ Adopt
    \/ Drop
    \/ NewEventId

SpecConv == InitConv /\ [][NextConv]_vars

SpecEvent == InitEvent /\ [][NextEvent]_vars

(***************************************************************************)
(* Properties of the conversions (under SpecConv).                         *)
(***************************************************************************)
CallImpl(c) == c[1]

CallArg(c) == c[2]

CallRet(c) == c[3]

Called == Len(calls) > 0

LastCall == calls[Len(calls)]

\* == as the types derive it: Motion compares f64 fields, the others are Eq
ValueEq(a, b) == IF TypeOf(a) = "Motion" THEN MotionEq(a, b) ELSE a = b

Types ==
    {"Key", "MouseButton", "JoystickButton", "JoystickAxisArgs", "Button",
     "Motion", "Input"}

\* the conversions the crate root provides, as <<source type, target type>>
Provided ==
    {<<"Key", "Button">>, <<"MouseButton", "Button">>,
     <<"JoystickButton", "Button">>, <<"JoystickAxisArgs", "Motion">>,
     <<"Motion", "Input">>}

\* the values of the target type of a conversion
TargetValues(impl) ==
    CASE impl \in {"Key->Button", "MouseButton->Button", "JoystickButton->Button"} ->
            ButtonValues
      [] impl = "JoystickAxisArgs->Motion" -> MotionValues
      [] impl = "Motion->Input" -> InputValues

\* the one variant a conversion wraps its argument in
TargetVariant(impl) ==
    CASE impl = "Key->Button" -> <<"Button", "Keyboard">>
      [] impl = "MouseButton->Button" -> <<"Button", "Mouse">>
      [] impl = "JoystickButton->Button" -> <<"Button", "Joystick">>
      [] impl = "JoystickAxisArgs->Motion" -> <<"Motion", "JoystickAxis">>
      [] impl = "Motion->Input" -> <<"Input", "Move">>

\* y.into() for a leaf y of Button
ButtonLeaves == KeyValues \cup MouseButtonValues \cup JoystickButtonValues

IntoButton(y) ==
    CASE TypeOf(y) = "Key" -> ButtonFromKey(y)
      [] TypeOf(y) = "MouseButton" -> ButtonFromMouseButton(y)
      [] TypeOf(y) = "JoystickButton" -> ButtonFromJoystickButton(y)

\* C1: every conversion's result, unwrapped from the variant it was given,
\* is the argument again: the same value, and equal to it under == whenever
\* the argument equals itself (a NaN coordinate equals nothing under ==).
C1_RoundTrip ==
    \A i \in 1..Len(calls) :
        /\ Len(CallRet(calls[i])) = 3
        /\ PayloadOf(CallRet(calls[i])) = CallArg(calls[i])
        /\ ValueEq(CallArg(calls[i]), CallArg(calls[i]))
              => ValueEq(PayloadOf(CallRet(calls[i])), CallArg(calls[i]))

C1_Witness ==
    /\ Len(calls) = 1
    /\ CallImpl(calls[1]) = "Motion->Input"
    /\ CallArg(calls[1]) = Motion_MouseCursor(NaN, F64(1))
    /\ PayloadOf(val) = CallArg(calls[1])

\* C4: each conversion is total and infallible: it is enabled at every value
\* of its source type, and its result is always a value of the target type
\* (never an absent or error result).
C4_Total ==
    /\ val \in KeyValues => ENABLED FromKey
    /\ val \in MouseButtonValues => ENABLED FromMouseButton
    /\ val \in JoystickButtonValues => ENABLED FromJoystickButton
    /\ val \in JoystickAxisArgsValues => ENABLED FromJoystickAxisArgs
    /\ val \in MotionValues => ENABLED FromMotion
    /\ \A i \in 1..Len(calls) :
          CallRet(calls[i]) \in TargetValues(CallImpl(calls[i]))

C4_Witness ==
    /\ Len(calls) = 1
    /\ CallArg(calls[1]) = Key(0)
    /\ val \in ButtonValues

\* C7: the conversions are exactly the five single-level ones: from a value
\* of type s, one conversion can give a value of type t exactly when
\* <<s, t>> is one of the five pairs; none takes Key, MouseButton,
\* JoystickButton, Button or JoystickAxisArgs to Input in one step.
C7_SingleLevelOnly ==
    /\ \A t \in Types :
          (ENABLED (NextConv /\ TypeOf(val') = t)) <=> (<<TypeOf(val), t>> \in Provided)
    /\ \A i \in 1..Len(calls) :
          /\ <<TypeOf(CallArg(calls[i])), TypeOf(CallRet(calls[i]))>> \in Provided
          /\ TypeOf(CallArg(calls[i])) # "Motion"
                => TypeOf(CallRet(calls[i])) # "Input"

C7_Witness ==
    /\ Len(calls) = 1
    /\ TypeOf(CallArg(calls[1])) = "Key"
    /\ TypeOf(val) = "Button"
    /\ ~ENABLED NextConv

\* C8: a conversion wraps its argument in one fixed variant: Keyboard, Mouse,
\* Joystick, JoystickAxis or Move, whatever the argument (for a Motion,
\* whichever of its four variants it is).
C8_FixedVariant ==
    \A i \in 1..Len(calls) :
        /\ Len(CallRet(calls[i])) = 3
        /\ <<TypeOf(CallRet(calls[i])), VariantOf(CallRet(calls[i]))>>
              = TargetVariant(CallImpl(calls[i]))

C8_Witness ==
    /\ Len(calls) = 1
    /\ TypeOf(CallArg(calls[1])) = "Motion"
    /\ VariantOf(CallArg(calls[1])) = "MouseScroll"
    /\ VariantOf(val) = "Move"

\* C9: JoystickAxisArgs -> Motion -> Input gives Input::Move(Motion::
\* JoystickAxis(a)) for the payload a it started from, and unwrapping both
\* levels gives a again.
C9_Chain ==
    (/\ Len(calls) = 2
     /\ CallImpl(calls[1]) = "JoystickAxisArgs->Motion"
     /\ CallImpl(calls[2]) = "Motion->Input")
    => /\ CallArg(calls[2]) = CallRet(calls[1])
       /\ val = Input_Move(Motion_JoystickAxis(CallArg(calls[1])))
       /\ PayloadOf(PayloadOf(val)) = CallArg(calls[1])

C9_Witness ==
    /\ Len(calls) = 2
    /\ CallArg(calls[1]) = JoystickAxisArgs(1)
    /\ val = Input_Move(Motion_JoystickAxis(JoystickAxisArgs(1)))

\* C10: the three conversions into Button partition the Button values: a
\* converted leaf is the image of no other leaf of any of the three types,
\* and every Button value is the image of exactly one leaf.
C10_Partition ==
    /\ (Called /\ TypeOf(CallArg(LastCall)) \in {"Key", "MouseButton", "JoystickButton"})
          => \A y \in ButtonLeaves :
                IntoButton(y) = CallRet(LastCall) => y = CallArg(LastCall)
    /\ val \in ButtonValues
          => Cardinality({y \in ButtonLeaves : IntoButton(y) = val}) = 1

C10_Witness ==
    /\ Len(calls) = 1
    /\ CallArg(calls[1]) = MouseButton(1)
    /\ val = Button_Mouse(MouseButton(1))
    /\ IntoButton(Key(1)) # val

(***************************************************************************)
(* Properties of the event ids and of GenericEvent (under SpecEvent).      *)
(***************************************************************************)
Answered == built # NoCall

Built == built # NoCall /\ built # None

\* C2: an aggregate built by from_<kind>(x, old) answers that kind's getter
\* with Some(x) and the getter of each of the other thirteen kinds with None.
C2_IdKind ==
    Built =>
        /\ kind_args(req[1], built[2]) = Some(req[2])
        /\ \A j \in Kinds \ {req[1]} : kind_args(j, built[2]) = None

C2_Witness ==
    /\ Built
    /\ req[1] = "press"
    /\ req[2] = Button_Mouse(MouseButton(0))
    /\ kind_args("press", built[2]) = Some(Button_Mouse(MouseButton(0)))
    /\ kind_args("release", built[2]) = None
    /\ kind_args("resize", built[2]) = None

\* C3: there are fourteen predefined ids, one per kind, and the ids of two
\* different kinds are unequal: the id an aggregate carries is the id of
\* exactly one kind.
C3_Injective ==
    /\ Cardinality(Kinds) = 14
    /\ Cardinality(PredefinedIds) = 14
    /\ \A j \in Kinds : \A k \in Kinds : IdOf(j) = IdOf(k) => j = k
    /\ Cardinality({k \in Kinds : IdOf(k) = event_id(old)}) = 1
    /\ Built => Cardinality({k \in Kinds : IdOf(k) = event_id(built[2])}) = 1

C3_Witness ==
    /\ Built
    /\ event_id(old) = FOCUS
    /\ event_id(built[2]) = CURSOR
    /\ event_id(old) # event_id(built[2])

\* C5: from_<k>(payload, old), for a kind k the aggregate's type supports,
\* gives an aggregate of old's concrete type, tagged k, with old's context;
\* old itself is as it was when it was passed.
C5_Preserve ==
    Answered =>
        /\ old = req[3]
        /\ IdOf(req[1]) \in Supported(AggType(old)) => Built
        /\ Built =>
              /\ AggType(built[2]) = AggType(old)
              /\ event_id(built[2]) = IdOf(req[1])
              /\ AggCtx(built[2]) = AggCtx(old)

C5_Witness ==
    /\ Built
    /\ event_id(old) = PRESS
    /\ AggCtx(old) = 1
    /\ req[1] = "resize"
    /\ event_id(built[2]) = RESIZE
    /\ AggCtx(built[2]) = 1

\* C6 as claimed: the only EventId values that exist are the fourteen
\* predefined ones.
C6_Closed == ids \subseteq PredefinedIds

\* C6 as amended: the fourteen predefined ids always exist and stay as they
\* are, and any other EventId that exists was made by a caller with the
\* public constructor EventId(str); one made from a predefined string is
\* that predefined id.
C6_OpenSet ==
    /\ Cardinality(PredefinedIds) = 14
    /\ PredefinedIds \subseteq ids
    /\ ids = PredefinedIds \cup {EventId(str) : str \in made}
    /\ event_id(old) \in PredefinedIds
    /\ Built => event_id(built[2]) \in PredefinedIds

C6_Witness ==
    /\ made = CallerStrs
    /\ ids \ PredefinedIds = {EventId("my/custom")}
    /\ EventId("piston/press") = PRESS

====
